---------------------------- MODULE Spec2Model ----------------------------
(***************************************************************************)
(* A model of live-subs (src/app_translate.py): the rolling caption        *)
(* buffer, the translation worker and the audio segmentation worker.       *)
(*                                                                         *)
(* Text is a sequence of one-character strings, so that len(), slicing,    *)
(* find() and strip() are computed the way Python computes them.           *)
(* Python's 0-based positions are kept; At and Slice convert.              *)
(***************************************************************************)
EXTENDS Integers, Sequences, FiniteSets, TLC

VARIABLES
    args_translate,             \* args.translate
    args_show_original,         \* args.show_original
    sentence_buffer,            \* the rolling caption text (non-translation mode)
    original_subtitle_buffer,   \* the latest source text (translation mode)
    translated_subtitle_buffer, \* the latest displayed translation
    full_transcript,            \* list of every text handed to add_subtitle_text
    translation_queue,          \* queue.Queue of texts waiting for the Translator
    unfinished_tasks,           \* queue.Queue's count of put() without task_done()
    is_running,                 \* the shared running flag
    processing_status,          \* the global processing_status
    translated_texts,           \* the translation cache: source text -> translation
    tw_pc,                      \* translation_worker: where it is in its loop
    tw_text,                    \* translation_worker: the local text
    tw_translated,              \* translation_worker: the local translated
    chat_calls,                 \* history: calls of chat() per source text
    chat_fails,                 \* history: calls of chat() that raised, per text
    is_paused,                  \* the shared pause flag
    audio_source,               \* what the microphone hears in this run
    capturing,                  \* the input stream is delivering blocks
    fed_blocks,                 \* history: blocks audio_callback has queued
    audio_queue,                \* audio_queue: blocks from audio_callback
    buffered_segment,           \* audio_processing_thread: buffered_segment
    silence_elapsed,            \* time.time() - silence_start_time, or NoTime
    ap_pc,                      \* audio_processing_thread: where it is
    ap_site,                    \* which flush called the Transcriber
    ap_chunks,                  \* chunks of split_on_silence still to handle
    since_dequeue,              \* history: time since audio_queue.get returned
    forced_flushed,             \* history: the flush by duration has happened
    idle_emits,                 \* history: Transcriber calls by the timeout
                                \*   flush since the last block was dequeued
    idle_adds,                  \* history: texts those calls added
    idle_expiries,              \* history: expiries of the silence timer handled
                                \*   since the last block was dequeued (up to 2)
    ap_done_after_quit,         \* history: a Transcriber call has finished
                                \*   after is_running was cleared
    tw_done_after_quit,         \* history: a Translator call has finished
                                \*   after is_running was cleared
    state_lock,                 \* state_lock: the thread that holds it, or "free"
    unlocked_access,            \* history: <<thread, variable>> for every shared
                                \*   variable a thread has touched without the lock
    args_save_transcript,       \* args.save_transcript
    output_file,                \* the content of args.output, or None
    save_log,                   \* what main logged for the last key S
    main_pc,                    \* main: where it is
    cleanup_log                 \* history: the steps of main's finally block

cfgVars == <<args_translate, args_show_original>>

captionVars == <<sentence_buffer, original_subtitle_buffer, full_transcript,
                 translation_queue, unfinished_tasks>>

twVars == <<processing_status, translated_texts, tw_pc, tw_text, tw_translated,
            chat_calls, chat_fails, tw_done_after_quit>>

segVars == <<is_paused, audio_source, capturing, fed_blocks, audio_queue,
             buffered_segment, silence_elapsed, ap_pc, ap_site, ap_chunks,
             since_dequeue, forced_flushed, idle_emits, idle_adds,
             idle_expiries, ap_done_after_quit>>

syncVars == <<state_lock, unlocked_access>>

mainVars == <<args_save_transcript, output_file, save_log, main_pc, cleanup_log>>

vars == <<args_translate, args_show_original, sentence_buffer,
          original_subtitle_buffer, translated_subtitle_buffer,
          full_transcript, translation_queue, unfinished_tasks, is_running,
          processing_status, translated_texts, tw_pc, tw_text, tw_translated,
          chat_calls, chat_fails, is_paused, audio_source, capturing,
          fed_blocks, audio_queue, buffered_segment, silence_elapsed, ap_pc,
          ap_site, ap_chunks, since_dequeue, forced_flushed, idle_emits,
          idle_adds, idle_expiries, ap_done_after_quit,
          tw_done_after_quit, state_lock, unlocked_access,
          args_save_transcript, output_file, save_log, main_pc, cleanup_log>>

---------------------------------------------------------------------------
(* Bounds and configuration *)

\* args.buffer_size (default 200): the capacity of the rolling buffer.
SENTENCE_BUFFER_SIZE == 3

\* Number of add_subtitle_text calls a run makes (full_transcript only grows).
MaxTranscript == 2

\* Recognised texts are up to one character longer than the capacity.
MaxTextLen == SENTENCE_BUFFER_SIZE + 1

\* The alphabet of recognised text: a letter, whitespace, a terminal mark.
Chars == {"a", " ", "."}

---------------------------------------------------------------------------
(* Python string operations *)

EmptyText == <<>>

\* s[pos] with a 0-based position
At(s, pos) == s[pos + 1]

\* s[from:] with 0 <= from
Slice(s, from) == SubSeq(s, from + 1, Len(s))

\* s[-n:] : for n = 0 Python's -0 is 0 and the whole string is returned
LastN(s, n) == IF n = 0 \/ n >= Len(s) THEN s ELSE Slice(s, Len(s) - n)

IsSpace(c) == c = " "

RECURSIVE LStrip(_)
LStrip(s) == IF s # <<>> /\ IsSpace(Head(s)) THEN LStrip(Tail(s)) ELSE s

RECURSIVE RStrip(_)
RStrip(s) ==
    IF s # <<>> /\ IsSpace(s[Len(s)]) THEN RStrip(SubSeq(s, 1, Len(s) - 1)) ELSE s

\* str.strip()
Strip(s) == RStrip(LStrip(s))

\* str.find(c): the first 0-based position of c, or -1
Find(s, c) ==
    LET hits == {p \in 0..(Len(s) - 1) : At(s, p) = c}
    IN  IF hits = {} THEN -1 ELSE CHOOSE p \in hits : \A q \in hits : p <= q

\* "needle in hay" for strings: needle occurs as a contiguous substring
Contains(hay, needle) ==
    \E i \in 0..(Len(hay) - Len(needle)) :
        SubSeq(hay, i + 1, i + Len(needle)) = needle

\* every sequence over S of length at most n
SeqsUpTo(S, n) == UNION {[1..k -> S] : k \in 0..n}

Last(s) == s[Len(s)]

---------------------------------------------------------------------------
(* add_subtitle_text *)

good_break_points == {".", "!", "?", ";"}

\* positions of the terminal marks at or after cutoff_start (lines 283-286)
BreakPoints(buf, cutoff_start) ==
    {pos \in cutoff_start..(Len(buf) - 1) : At(buf, pos) \in good_break_points}

SetMin(S) == CHOOSE x \in S : \A y \in S : x <= y

Max2(a, b) == IF a >= b THEN a ELSE b

SetMax(S) == CHOOSE x \in S : \A y \in S : x >= y

\* a cut after the LAST mark of the retained region instead of the first
BreakCutoff_Latest(break_points, cutoff_start) ==
    Max2(SetMax(break_points) + 1, cutoff_start)

\* line 290: cutoff = max(min(break_points) + 1, cutoff_start)
BreakCutoff(break_points, cutoff_start) ==
    Max2(SetMin(break_points) + 1, cutoff_start)

\* lines 279-300: the branch taken when the buffer is over the capacity
CutBuffer(buf, capacity) ==
    LET cutoff_start == Len(buf) - capacity
        break_points == BreakPoints(buf, cutoff_start)
    IN  IF break_points # {}
        THEN Strip(Slice(buf, BreakCutoff(break_points, cutoff_start)))
        ELSE LET text_to_keep == Slice(buf, cutoff_start)
                 first_space == Find(text_to_keep, " ")
             IN  IF first_space > 0
                 THEN Strip(Slice(text_to_keep, first_space))
                 ELSE Strip(LastN(buf, capacity))

\* the length test off by one: a buffer one character over is kept whole
TrimBuffer_OffByOne(buf, capacity) ==
    IF Len(buf) > capacity + 1 THEN CutBuffer(buf, capacity) ELSE buf

\* lines 277-300: the merged buffer cut down to the capacity
TrimBuffer(buf, capacity) ==
    IF Len(buf) > capacity THEN CutBuffer(buf, capacity) ELSE buf

\* line 274: sentence_buffer += " " + new_text.strip()
MergeText(buf, new_text) == buf \o <<" ">> \o Strip(new_text)

\* both sinks fed: the text is queued for translation AND appended to the
\* rolling buffer, whatever the mode
AddSubtitleText_BothSinks(new_text) ==
    /\ full_transcript' = Append(full_transcript, Strip(new_text))
    /\ original_subtitle_buffer' = Strip(new_text)
    /\ translation_queue' = Append(translation_queue, Strip(new_text))
    /\ unfinished_tasks' = unfinished_tasks + 1
    /\ sentence_buffer' =
           TrimBuffer(MergeText(sentence_buffer, new_text), SENTENCE_BUFFER_SIZE)

\* translation mode appends to the original buffer instead of replacing it
AddSubtitleText_Accumulate(new_text) ==
    /\ full_transcript' = Append(full_transcript, Strip(new_text))
    /\ IF args_translate
       THEN /\ original_subtitle_buffer' =
                   original_subtitle_buffer \o Strip(new_text)
            /\ translation_queue' = Append(translation_queue, Strip(new_text))
            /\ unfinished_tasks' = unfinished_tasks + 1
            /\ UNCHANGED sentence_buffer
       ELSE /\ sentence_buffer' =
                   TrimBuffer(MergeText(sentence_buffer, new_text),
                              SENTENCE_BUFFER_SIZE)
            /\ UNCHANGED <<original_subtitle_buffer, translation_queue,
                           unfinished_tasks>>

\* lines 261-300, the whole body under state_lock
AddSubtitleText(new_text) ==
    /\ full_transcript' = Append(full_transcript, Strip(new_text))
    /\ IF args_translate
       THEN /\ original_subtitle_buffer' = Strip(new_text)
            /\ translation_queue' = Append(translation_queue, Strip(new_text))
            /\ unfinished_tasks' = unfinished_tasks + 1
            /\ UNCHANGED sentence_buffer
       ELSE /\ sentence_buffer' =
                   TrimBuffer(MergeText(sentence_buffer, new_text),
                              SENTENCE_BUFFER_SIZE)
            /\ UNCHANGED <<original_subtitle_buffer, translation_queue,
                           unfinished_tasks>>

---------------------------------------------------------------------------
(* The audio segmentation worker: audio_callback and                       *)
(* audio_processing_thread.  Time is counted in steps of one audio block:  *)
(* the stream delivers one block per block period, and a clock reading is  *)
(* the number of whole periods elapsed.  An audio block is loud ("L",      *)
(* above the silence threshold) or silent ("S"); it carries the number n   *)
(* audio_callback delivered it under, so that the audio behind a text can  *)
(* be told.                                                                *)

\* args.min_silence (default 400): minimum silence duration in ms
min_silence == 400

\* block_size_ms: the duration of one block of the input stream
block_size_ms == 200

\* line 578: the buffered duration above which the buffer is flushed
MaxSegmentMs == 8000

\* blocks that may wait in audio_queue (the Transcriber's latency)
MaxQueue == 2

\* blocks that a run with pauses in the speech delivers
MixedBlocks == 4

\* power of a loud block, in units of the silence threshold's power
LoudRatio == 3

\* blocks that a run of uninterrupted speech delivers: past the hard cap
SpeechBlocks == (MaxSegmentMs \div block_size_ms) + 2

TickMs == block_size_ms

NoTime == 0 - 1

\* the clock stops counting once the reading is past every threshold
TimerCap == min_silence + TickMs

Min2(a, b) == IF a <= b THEN a ELSE b

Advance(t) == IF t = NoTime THEN NoTime ELSE Min2(t + TickMs, TimerCap)

BlockKinds == IF audio_source = "speech" THEN {"L"} ELSE {"L", "S"}

FeedLimit == IF audio_source = "speech" THEN SpeechBlocks ELSE MixedBlocks

\* len(buffered_segment): pydub's length of a segment in ms
DurationMs(seg) == Len(seg) * block_size_ms

LoudCount(seg) == Cardinality({i \in 1..Len(seg) : seg[i].level = "L"})

\* lines 400-406: chunk.dBFS < threshold_db.  dBFS is the level of the mean
\* power of the whole chunk (minus infinity for an empty chunk).
IsChunkSilent(seg) == Len(seg) = 0 \/ LoudCount(seg) * LoudRatio < Len(seg)

MinSilenceBlocks == (min_silence + block_size_ms - 1) \div block_size_ms

\* the number of silent blocks in a row from block i on
RECURSIVE SilentRun(_, _)
SilentRun(seg, i) ==
    IF i > Len(seg) \/ seg[i].level # "S" THEN 0 ELSE 1 + SilentRun(seg, i + 1)

\* the non-silent stretches from block i on; cur is the stretch being
\* collected, in which a silence shorter than min_silence_len stays
RECURSIVE ChunksFrom(_, _, _)
ChunksFrom(seg, i, cur) ==
    IF i > Len(seg)
    THEN IF cur = <<>> THEN <<>> ELSE <<cur>>
    ELSE IF seg[i].level = "S"
         THEN LET run == SilentRun(seg, i)
              IN  IF run >= MinSilenceBlocks
                  THEN (IF cur = <<>> THEN <<>> ELSE <<cur>>)
                          \o ChunksFrom(seg, i + run, <<>>)
                  ELSE ChunksFrom(seg, i + run,
                                  cur \o SubSeq(seg, i, i + run - 1))
         ELSE ChunksFrom(seg, i + 1, Append(cur, seg[i]))

\* lines 550-555: pydub's silence.split_on_silence: the stretches between
\* silences of min_silence_len or more; the whole segment when it is empty
\* (keep_silence, 100 ms of padding, is below a block)
SplitOnSilence(seg) == IF seg = <<>> THEN <<seg>> ELSE ChunksFrom(seg, 1, <<>>)

\* line 518: excluded_texts for args.language == "sv"
excluded_texts ==
    { <<"T","a","c","k",".">>, <<"T","a","c","k","!">>, <<"J","a",".">>,
      <<"M","u","s","i","k">> }

\* lines 564, 581, 601: text.strip() and text.strip() not in excluded_texts
Accepted(text) == Strip(text) # EmptyText /\ Strip(text) \notin excluded_texts

\* what the Transcriber answers (result["text"])
AsrTexts == { <<" ", "a">>, <<" ">>, <<"J","a",".">> }

\* lines 511-525, and the stream of main() before stream.start()
InitAP ==
    /\ is_paused = FALSE
    /\ capturing = TRUE
    /\ fed_blocks = 0
    /\ audio_queue = <<>>
    /\ buffered_segment = <<>>
    /\ silence_elapsed = NoTime
    /\ ap_pc = "loop"
    /\ ap_site = "none"
    /\ ap_chunks = <<>>
    /\ since_dequeue = NoTime
    /\ forced_flushed = FALSE
    /\ idle_emits = 0
    /\ idle_adds = 0
    /\ idle_expiries = 0
    /\ ap_done_after_quit = FALSE

captionRest == <<cfgVars, mainVars, translated_subtitle_buffer, is_running, twVars>>

\* one block period passes; lines 647-650: audio_callback queues the block
\* the stream has recorded meanwhile
Tick ==
    /\ capturing => (fed_blocks < FeedLimit /\ Len(audio_queue) < MaxQueue)
    /\ IF capturing
       THEN /\ \E block \in BlockKinds :
                  audio_queue' = Append(audio_queue,
                                        [level |-> block, n |-> fed_blocks + 1])
            /\ fed_blocks' = fed_blocks + 1
       ELSE UNCHANGED <<audio_queue, fed_blocks>>
    /\ silence_elapsed' = Advance(silence_elapsed)
    /\ since_dequeue' = Advance(since_dequeue)
    /\ UNCHANGED <<idle_expiries, captionRest, captionVars, is_paused, audio_source, capturing,
                   buffered_segment, ap_pc, ap_site, ap_chunks, forced_flushed,
                   idle_emits, idle_adds>>
    /\ UNCHANGED <<state_lock, unlocked_access, ap_done_after_quit>>

\* the microphone input ends: no further block is delivered
StopInput ==
    /\ capturing
    /\ capturing' = FALSE
    /\ UNCHANGED <<idle_expiries, captionRest, captionVars, is_paused, audio_source,
                   fed_blocks, audio_queue, buffered_segment, silence_elapsed,
                   ap_pc, ap_site, ap_chunks, since_dequeue, forced_flushed,
                   idle_emits, idle_adds>>
    /\ UNCHANGED <<state_lock, unlocked_access, ap_done_after_quit>>

\* the loop never tests is_running
AtLoopHead_IgnoreFlag == ap_pc = "loop" /\ ~is_paused

\* lines 527-530: the worker is at the top of its loop, running, not paused
AtLoopHead == ap_pc = "loop" /\ is_running /\ ~is_paused

SegWorker == "audio_processing_thread"

\* a thread touches shared variables outside every "with state_lock"
Unlocked(thread, variables) ==
    unlocked_access' = unlocked_access \cup {<<thread, v>> : v \in variables}

\* lines 527-528: while is_running, if is_paused
ReadsFlags == Unlocked(SegWorker, {"is_running", "is_paused"})

\* the newest block is taken from the queue, not the oldest
AP_Dequeue_Newest ==
    /\ AtLoopHead
    /\ audio_queue # <<>>
    /\ state_lock = "free"
    /\ audio_queue' = SubSeq(audio_queue, 1, Len(audio_queue) - 1)
    /\ buffered_segment' = Append(buffered_segment, Last(audio_queue))
    /\ LET chunks == SplitOnSilence(buffered_segment')
       IN  IF Len(chunks) > 1
           THEN ap_chunks' = chunks /\ ap_pc' = "split"
           ELSE ap_chunks' = <<>> /\ ap_pc' = "forced_check"
    /\ since_dequeue' = 0
    /\ idle_emits' = 0
    /\ idle_adds' = 0
    /\ idle_expiries' = 0
    /\ ReadsFlags
    /\ UNCHANGED <<captionRest, captionVars, is_paused, audio_source, capturing,
                   fed_blocks, silence_elapsed, ap_site, forced_flushed,
                   state_lock, ap_done_after_quit>>

\* lines 533-557: a block is taken from the queue and appended, the level
\* indicator is updated (update_mic_level, under the lock) and the buffer is
\* split on silence
AP_Dequeue ==
    /\ AtLoopHead
    /\ audio_queue # <<>>
    /\ state_lock = "free"
    /\ audio_queue' = Tail(audio_queue)
    /\ buffered_segment' = Append(buffered_segment, Head(audio_queue))
    /\ LET chunks == SplitOnSilence(buffered_segment')
       IN  IF Len(chunks) > 1
           THEN ap_chunks' = chunks /\ ap_pc' = "split"
           ELSE ap_chunks' = <<>> /\ ap_pc' = "forced_check"
    /\ since_dequeue' = 0
    /\ idle_emits' = 0
    /\ idle_adds' = 0
    /\ idle_expiries' = 0
    /\ UNCHANGED <<captionRest, captionVars, is_paused, audio_source, capturing,
                   fed_blocks, silence_elapsed, ap_site, forced_flushed>>
    /\ ReadsFlags
    /\ UNCHANGED <<state_lock, ap_done_after_quit>>

\* lines 559-563: the next finished chunk goes to transcribe_chunk
AP_SplitNext ==
    /\ ap_pc = "split"
    /\ Len(ap_chunks) > 1
    /\ is_running
    /\ ap_pc' = "transcribe_chunk"
    /\ ap_site' = "split"
    /\ UNCHANGED <<idle_expiries, captionRest, captionVars, is_paused, audio_source, capturing,
                   fed_blocks, audio_queue, buffered_segment, silence_elapsed,
                   ap_chunks, since_dequeue, forced_flushed, idle_emits,
                   idle_adds>>
    /\ Unlocked(SegWorker, {"is_running"})
    /\ UNCHANGED <<state_lock, ap_done_after_quit>>

\* lines 560-561 and 574-575: the loop over the finished chunks ends; the
\* last chunk is the new buffer and the silence timer is reset
AP_SplitEnd ==
    /\ ap_pc = "split"
    /\ Len(ap_chunks) = 1 \/ ~is_running
    /\ buffered_segment' = Last(ap_chunks)
    /\ silence_elapsed' = NoTime
    /\ ap_chunks' = <<>>
    /\ ap_pc' = "forced_check"
    /\ UNCHANGED <<idle_expiries, captionRest, captionVars, is_paused, audio_source, capturing,
                   fed_blocks, audio_queue, ap_site, since_dequeue,
                   forced_flushed, idle_emits, idle_adds>>
    /\ IF Len(ap_chunks) > 1
       THEN Unlocked(SegWorker, {"is_running"})
       ELSE UNCHANGED unlocked_access
    /\ UNCHANGED <<state_lock, ap_done_after_quit>>

\* lines 578-585: the flush by duration; transcribe_if_not_silent calls the
\* Transcriber unless the buffer is silent
AP_ForcedCheck ==
    /\ ap_pc = "forced_check"
    /\ IF DurationMs(buffered_segment) > MaxSegmentMs
       THEN IF IsChunkSilent(buffered_segment)
            THEN /\ buffered_segment' = <<>>
                 /\ silence_elapsed' = NoTime
                 /\ forced_flushed' = TRUE
                 /\ ap_pc' = "loop"
                 /\ UNCHANGED ap_site
            ELSE /\ ap_pc' = "transcribe_chunk"
                 /\ ap_site' = "forced"
                 /\ UNCHANGED <<buffered_segment, silence_elapsed,
                                forced_flushed>>
       ELSE /\ ap_pc' = "loop"
            /\ UNCHANGED <<buffered_segment, silence_elapsed, forced_flushed,
                           ap_site>>
    /\ UNCHANGED <<idle_expiries, captionRest, captionVars, is_paused, audio_source, capturing,
                   fed_blocks, audio_queue, ap_chunks, since_dequeue,
                   idle_emits, idle_adds>>
    /\ UNCHANGED <<state_lock, unlocked_access, ap_done_after_quit>>

\* lines 595-596: the queue is empty and no timer runs: the timer starts
AP_StartTimer ==
    /\ AtLoopHead
    /\ audio_queue = <<>>
    /\ silence_elapsed = NoTime
    /\ silence_elapsed' = 0
    /\ UNCHANGED <<idle_expiries, captionRest, captionVars, is_paused, audio_source, capturing,
                   fed_blocks, audio_queue, buffered_segment, ap_pc, ap_site,
                   ap_chunks, since_dequeue, forced_flushed, idle_emits,
                   idle_adds>>
    /\ ReadsFlags
    /\ UNCHANGED <<state_lock, ap_done_after_quit>>

\* lines 597-605: the queue is empty and the timer has run for more than
\* min_silence: the buffer goes to transcribe_if_not_silent.  (With the
\* timer at or below min_silence the iteration only sleeps.)
AP_TimeoutFlush ==
    /\ AtLoopHead
    /\ audio_queue = <<>>
    /\ silence_elapsed # NoTime
    /\ silence_elapsed > min_silence
    /\ idle_expiries' = Min2(idle_expiries + 1, 2)
    /\ IF IsChunkSilent(buffered_segment)
       THEN /\ buffered_segment' = <<>>
            /\ silence_elapsed' = NoTime
            /\ UNCHANGED <<ap_pc, ap_site, idle_emits>>
       ELSE /\ ap_pc' = "transcribe_chunk"
            /\ ap_site' = "timeout"
            /\ idle_emits' = idle_emits + 1
            /\ UNCHANGED <<buffered_segment, silence_elapsed>>
    /\ UNCHANGED <<captionRest, captionVars, is_paused, audio_source, capturing,
                   fed_blocks, audio_queue, ap_chunks, since_dequeue,
                   forced_flushed, idle_adds>>
    /\ ReadsFlags
    /\ UNCHANGED <<state_lock, ap_done_after_quit>>

apFrame == <<captionRest, captionVars, is_paused, audio_source, capturing,
             fed_blocks, audio_queue, buffered_segment, silence_elapsed,
             ap_site, ap_chunks, since_dequeue, forced_flushed, idle_emits,
             idle_adds, idle_expiries, ap_done_after_quit>>

\* the lock is not released before the Transcriber is called
AP_AsrCall_KeepLock ==
    /\ ap_pc = "status"
    /\ ap_pc' = "asr"
    /\ UNCHANGED <<state_lock, unlocked_access, apFrame>>

\* lines 474-475: transcribe_chunk takes the lock and assigns
\* processing_status, a local of transcribe_chunk (no global statement)
AP_TranscribeChunk ==
    /\ ap_pc = "transcribe_chunk"
    /\ state_lock = "free"
    /\ state_lock' = SegWorker
    /\ ap_pc' = "status"
    /\ UNCHANGED <<unlocked_access, apFrame>>

\* lines 475-481: the with block ends, the lock is released, and asr_pipe
\* is called
AP_AsrCall ==
    /\ ap_pc = "status"
    /\ state_lock' = "free"
    /\ ap_pc' = "asr"
    /\ UNCHANGED <<unlocked_access, apFrame>>

\* the buffer is kept after the flush
AfterAsr_KeepBuffer(site) ==
    /\ ap_pc' = IF site = "split" THEN "split" ELSE "loop"
    /\ ap_site' = "none"
    /\ ap_chunks' = IF site = "split" THEN Tail(ap_chunks) ELSE ap_chunks
    /\ forced_flushed' = (forced_flushed \/ site = "forced")
    /\ silence_elapsed' = IF site = "split" THEN silence_elapsed ELSE NoTime
    /\ UNCHANGED buffered_segment

\* what follows the Transcriber call at each of its three sites: the next
\* finished chunk (line 559), or the reset of buffer and timer (lines
\* 584-585 and 604-605)
AfterAsr(site) ==
    /\ ap_pc' = IF site = "split" THEN "split" ELSE "loop"
    /\ ap_site' = "none"
    /\ ap_chunks' = IF site = "split" THEN Tail(ap_chunks) ELSE ap_chunks
    /\ forced_flushed' = (forced_flushed \/ site = "forced")
    /\ IF site = "split"
       THEN UNCHANGED <<buffered_segment, silence_elapsed>>
       ELSE buffered_segment' = <<>> /\ silence_elapsed' = NoTime

\* the segment transcribe_chunk was called with: the finished chunk c of
\* the split (line 559), or the whole buffer (lines 579, 599)
CalledWith == IF ap_site = "split" THEN Head(ap_chunks) ELSE buffered_segment

BlockNumbers(seg) == {seg[i].n : i \in 1..Len(seg)}

\* lines 482-491 and 564-573, 581-583, 601-603: asr_pipe returns a text; an
\* accepted text goes to add_subtitle_text.  (processing_status is assigned
\* in transcribe_chunk without a global statement: the global keeps its
\* value.)
AP_AsrReturns ==
    /\ ap_pc = "asr"
    /\ state_lock = "free"
    /\ \E text \in AsrTexts :
          /\ Accepted(text) => Len(full_transcript) < MaxTranscript
          /\ IF Accepted(text)
             THEN /\ AddSubtitleText(text)
                  /\ idle_adds' = IF ap_site = "timeout"
                                  THEN idle_adds + 1 ELSE idle_adds
             ELSE UNCHANGED <<captionVars, idle_adds>>
    /\ ap_done_after_quit' = (ap_done_after_quit \/ ~is_running)
    /\ AfterAsr(ap_site)
    /\ UNCHANGED <<idle_expiries, captionRest, is_paused, audio_source, capturing, fed_blocks,
                   audio_queue, since_dequeue, idle_emits>>
    /\ UNCHANGED <<state_lock, unlocked_access>>

\* lines 492-496: asr_pipe raises: transcribe_chunk takes the lock, assigns
\* its local processing_status and returns ""; nothing is added
AP_AsrRaises ==
    /\ ap_pc = "asr"
    /\ state_lock = "free"
    /\ ap_done_after_quit' = (ap_done_after_quit \/ ~is_running)
    /\ AfterAsr(ap_site)
    /\ UNCHANGED <<idle_expiries, captionRest, captionVars, is_paused, audio_source, capturing,
                   fed_blocks, audio_queue, since_dequeue, idle_emits,
                   idle_adds>>
    /\ UNCHANGED <<state_lock, unlocked_access>>

APNext ==
    \/ AP_Dequeue
    \/ AP_SplitNext
    \/ AP_SplitEnd
    \/ AP_ForcedCheck
    \/ AP_StartTimer
    \/ AP_TimeoutFlush
    \/ AP_TranscribeChunk
    \/ AP_AsrCall
    \/ AP_AsrReturns
    \/ AP_AsrRaises

---------------------------------------------------------------------------
(* The translation worker *)

\* Python's None, kept comparable with texts
None == <<"None">>

\* texts handed to add_subtitle_text while the translation worker runs:
\* whitespace only, padded, without the other's letters, over the capacity
SourceTexts == {<<" ">>, <<"a", " ">>, <<"b">>, <<"a", ".", "a", "a">>}

\* what the Translator answers (response.message.content), before strip()
Responses == {<<"x">>, <<" ", "x", "y", "x", "y">>}

QueuedTexts == {Strip(t) : t \in SourceTexts}

\* lines 117-133: the module's state at start-up
InitCaption ==
    /\ sentence_buffer = EmptyText
    /\ original_subtitle_buffer = EmptyText
    /\ translated_subtitle_buffer = EmptyText
    /\ full_transcript = <<>>
    /\ translation_queue = <<>>
    /\ unfinished_tasks = 0
    /\ is_running = TRUE
    /\ processing_status = "Ready"
    /\ translated_texts = <<>>
    /\ state_lock = "free"
    /\ unlocked_access = {}

\* translation_worker before its first iteration (line 143: without
\* --translate the thread returns at once)
InitTW ==
    /\ tw_pc = IF args_translate THEN "loop" ELSE "returned"
    /\ tw_text = None
    /\ tw_translated = None
    /\ chat_calls = [t \in QueuedTexts |-> 0]
    /\ chat_fails = [t \in QueuedTexts |-> 0]
    /\ tw_done_after_quit = FALSE

TransWorker == "translation_worker"

\* queue.task_done()
TaskDone == unfinished_tasks' = unfinished_tasks - 1

InCache(text) == text \in DOMAIN translated_texts

\* lines 154-157: the loop test and translation_queue.get(timeout=1.0); on
\* queue.Empty the worker comes back here unchanged
TW_Get ==
    /\ tw_pc = "loop"
    /\ is_running
    /\ translation_queue # <<>>
    /\ tw_text' = Head(translation_queue)
    /\ translation_queue' = Tail(translation_queue)
    /\ tw_pc' = "got"
    /\ UNCHANGED <<cfgVars, mainVars, segVars, sentence_buffer, original_subtitle_buffer,
                   translated_subtitle_buffer, full_transcript, unfinished_tasks,
                   is_running, processing_status, translated_texts,
                   tw_translated, chat_calls, chat_fails>>
    /\ Unlocked(TransWorker, {"is_running"})
    /\ UNCHANGED <<state_lock, tw_done_after_quit>>

\* lines 159-161
TW_SkipBlank ==
    /\ tw_pc = "got"
    /\ Strip(tw_text) = EmptyText
    /\ TaskDone
    /\ tw_pc' = "loop"
    /\ UNCHANGED <<cfgVars, mainVars, segVars, sentence_buffer, original_subtitle_buffer,
                   translated_subtitle_buffer, full_transcript, translation_queue,
                   is_running, processing_status, translated_texts, tw_text,
                   tw_translated, chat_calls, chat_fails>>
    /\ UNCHANGED <<state_lock, unlocked_access, tw_done_after_quit>>

\* the cache is never consulted
SkipIfCached_Never(text) == FALSE

\* line 164: if text in translated_texts
SkipIfCached(text) == InCache(text)

\* lines 164-166
TW_SkipCached ==
    /\ tw_pc = "got"
    /\ Strip(tw_text) # EmptyText
    /\ SkipIfCached(tw_text)
    /\ TaskDone
    /\ tw_pc' = "loop"
    /\ UNCHANGED <<cfgVars, mainVars, segVars, sentence_buffer, original_subtitle_buffer,
                   translated_subtitle_buffer, full_transcript, translation_queue,
                   is_running, processing_status, translated_texts, tw_text,
                   tw_translated, chat_calls, chat_fails>>
    /\ Unlocked(TransWorker, {"translated_texts"})
    /\ UNCHANGED <<state_lock, tw_done_after_quit>>

\* lines 164 and 168-170: the text is not in the cache; the lock is taken and
\* processing_status assigned
TW_SetTranslating ==
    /\ tw_pc = "got"
    /\ Strip(tw_text) # EmptyText
    /\ ~SkipIfCached(tw_text)
    /\ state_lock = "free"
    /\ state_lock' = TransWorker
    /\ processing_status' = "Translating..."
    /\ tw_pc' = "call"
    /\ UNCHANGED <<cfgVars, mainVars, segVars, sentence_buffer, original_subtitle_buffer,
                   translated_subtitle_buffer, full_transcript, translation_queue,
                   unfinished_tasks, is_running, translated_texts, tw_text,
                   tw_translated, chat_calls, chat_fails>>
    /\ Unlocked(TransWorker, {"translated_texts"})
    /\ UNCHANGED tw_done_after_quit

\* lines 170-174: the with block ends, the lock is released, and chat(...)
\* is called
TW_ChatCall ==
    /\ tw_pc = "call"
    /\ state_lock' = "free"
    /\ chat_calls' = [chat_calls EXCEPT ![tw_text] = @ + 1]
    /\ tw_pc' = "chat"
    /\ UNCHANGED <<cfgVars, mainVars, segVars, sentence_buffer, original_subtitle_buffer,
                   translated_subtitle_buffer, full_transcript, translation_queue,
                   unfinished_tasks, is_running, processing_status,
                   translated_texts, tw_text, tw_translated, chat_fails>>
    /\ UNCHANGED <<unlocked_access, tw_done_after_quit>>

\* lines 174-188: chat() returns; translated = response.message.content.strip()
TW_ChatReturns ==
    /\ tw_pc = "chat"
    /\ tw_done_after_quit' = (tw_done_after_quit \/ ~is_running)
    /\ \E response \in Responses : tw_translated' = Strip(response)
    /\ tw_pc' = "cache"
    /\ UNCHANGED <<cfgVars, mainVars, segVars, sentence_buffer, original_subtitle_buffer,
                   translated_subtitle_buffer, full_transcript, translation_queue,
                   unfinished_tasks, is_running, processing_status,
                   translated_texts, tw_text, chat_calls, chat_fails>>
    /\ UNCHANGED <<state_lock, unlocked_access>>

\* the failed text is put back on the queue
TW_ChatRaises_Requeue ==
    /\ tw_pc = "chat"
    /\ state_lock = "free"
    /\ tw_done_after_quit' = (tw_done_after_quit \/ ~is_running)
    /\ chat_fails' = [chat_fails EXCEPT ![tw_text] = @ + 1]
    /\ processing_status' = "Translation error"
    /\ translation_queue' = Append(translation_queue, tw_text)
    /\ tw_pc' = "loop"
    /\ UNCHANGED <<cfgVars, mainVars, segVars, sentence_buffer,
                   original_subtitle_buffer, translated_subtitle_buffer,
                   full_transcript, unfinished_tasks, is_running,
                   translated_texts, tw_text, tw_translated, chat_calls,
                   state_lock, unlocked_access>>

\* lines 198-203: chat() raises; the status is set, the item is done
TW_ChatRaises ==
    /\ tw_pc = "chat"
    /\ state_lock = "free"
    /\ tw_done_after_quit' = (tw_done_after_quit \/ ~is_running)
    /\ chat_fails' = [chat_fails EXCEPT ![tw_text] = @ + 1]
    /\ processing_status' = "Translation error"
    /\ TaskDone
    /\ tw_pc' = "loop"
    /\ UNCHANGED <<cfgVars, mainVars, segVars, sentence_buffer, original_subtitle_buffer,
                   translated_subtitle_buffer, full_transcript, translation_queue,
                   is_running, translated_texts, tw_text, tw_translated,
                   chat_calls>>
    /\ UNCHANGED <<state_lock, unlocked_access>>

\* translated_texts[text] = translated
CachePut(cache, text, translated) ==
    [t \in DOMAIN cache \cup {text} |->
        IF t = text THEN translated ELSE cache[t]]

\* lines 190-193
TW_Cache ==
    /\ tw_pc = "cache"
    /\ state_lock = "free"
    /\ translated_texts' = CachePut(translated_texts, tw_text, tw_translated)
    /\ processing_status' = "Ready"
    /\ tw_pc' = "update"
    /\ UNCHANGED <<cfgVars, mainVars, segVars, sentence_buffer, original_subtitle_buffer,
                   translated_subtitle_buffer, full_transcript, translation_queue,
                   unfinished_tasks, is_running, tw_text, tw_translated,
                   chat_calls, chat_fails>>
    /\ UNCHANGED <<state_lock, unlocked_access, tw_done_after_quit>>

\* the translation is withheld in single display too
UpdateTranslation_AlwaysMatch(original, translated) ==
    IF Contains(original_subtitle_buffer, Strip(original))
    THEN translated_subtitle_buffer' = translated
    ELSE UNCHANGED translated_subtitle_buffer

\* the translation is appended to the translated buffer, not put in its place
UpdateTranslation_Accumulate(original, translated) ==
    translated_subtitle_buffer' = translated_subtitle_buffer \o translated

\* lines 211-223: update_translation(original, translated)
UpdateTranslation(original, translated) ==
    IF args_show_original
    THEN IF Contains(original_subtitle_buffer, Strip(original))
         THEN translated_subtitle_buffer' = translated
         ELSE UNCHANGED translated_subtitle_buffer
    ELSE translated_subtitle_buffer' = translated

\* lines 196 and 203: update_translation, then task_done
TW_UpdateTranslation ==
    /\ tw_pc = "update"
    /\ state_lock = "free"
    /\ UpdateTranslation(tw_text, tw_translated)
    /\ TaskDone
    /\ tw_pc' = "loop"
    /\ UNCHANGED <<cfgVars, mainVars, segVars, sentence_buffer, original_subtitle_buffer,
                   full_transcript, translation_queue, is_running,
                   processing_status, translated_texts, tw_text, tw_translated,
                   chat_calls, chat_fails>>
    /\ UNCHANGED <<state_lock, unlocked_access, tw_done_after_quit>>

TWNext ==
    \/ TW_Get
    \/ TW_SkipBlank
    \/ TW_SkipCached
    \/ TW_SetTranslating
    \/ TW_ChatCall
    \/ TW_ChatReturns
    \/ TW_ChatRaises
    \/ TW_Cache
    \/ TW_UpdateTranslation

\* a text is recognised and handed to add_subtitle_text
SubmitText ==
    /\ Len(full_transcript) < MaxTranscript
    /\ state_lock = "free"
    /\ \E new_text \in SourceTexts : AddSubtitleText(new_text)
    /\ UNCHANGED <<cfgVars, mainVars, syncVars, segVars,
                   translated_subtitle_buffer, is_running, twVars>>

\* the command line: --translate and --show_original, either way; no
\* audio is delivered
InitArgs ==
    /\ args_translate \in BOOLEAN
    /\ args_show_original \in BOOLEAN
    /\ args_save_transcript = FALSE
    /\ audio_source = "mixed"

\* main before the first frame: nothing saved, nothing torn down
InitMain ==
    /\ output_file = None
    /\ save_log = "none"
    /\ main_pc = "loop"
    /\ cleanup_log = <<>>

Init == InitArgs /\ InitCaption /\ InitTW /\ InitAP /\ InitMain

Next == SubmitText \/ TWNext

Spec == Init /\ [][Next]_vars

\* the worker thread keeps running, and chat() returns or raises
FairSpec == Spec /\ WF_vars(TWNext)

---------------------------------------------------------------------------
(* The translation pipeline in a longer session: a text can be submitted,  *)
(* be followed by another, and be submitted again                          *)

\* number of add_subtitle_text calls of the longer session
MaxSubmissions == 3

\* a text is recognised and handed to add_subtitle_text
SubmitFurther ==
    /\ Len(full_transcript) < MaxSubmissions
    /\ state_lock = "free"
    /\ \E new_text \in SourceTexts : AddSubtitleText(new_text)
    /\ UNCHANGED <<cfgVars, mainVars, syncVars, segVars,
                   translated_subtitle_buffer, is_running, twVars>>

NextSession == SubmitFurther \/ TWNext

SpecSession == Init /\ [][NextSession]_vars

---------------------------------------------------------------------------
(* save_transcript and main: the render loop's keys and the clean-up *)

MainThread == "main"

\* args.target_language (default "en")
target_language == <<"e", "n">>

\* str.upper() on the letters of the language code
Upper(s) ==
    [i \in DOMAIN s |->
        CASE s[i] = "e" -> "E"
          [] s[i] = "n" -> "N"
          [] OTHER -> s[i]]

\* an entry with no blank line after it when it has no translation
WriteEntry_NoBlankLine(text) ==
    text \o <<"\n">> \o
        (IF args_translate /\ InCache(text)
         THEN <<"[">> \o Upper(target_language) \o <<"]", ":", " ">>
                  \o translated_texts[text] \o <<"\n", "\n">>
         ELSE <<>>)

\* lines 391-396: what the loop body writes for one text
WriteEntry(text) ==
    text \o <<"\n">> \o
        (IF args_translate /\ InCache(text)
         THEN <<"[">> \o Upper(target_language) \o <<"]", ":", " ">>
                  \o translated_texts[text] \o <<"\n", "\n">>
         ELSE <<"\n">>)

\* lines 390-396: the loop over full_transcript
RECURSIVE WriteAll(_)
WriteAll(transcript) ==
    IF transcript = <<>>
    THEN <<>>
    ELSE WriteEntry(Head(transcript)) \o WriteAll(Tail(transcript))

\* lines 383-397: save_transcript(), under the lock: False and no file
\* access on an empty transcript, else the file is opened with 'w' and
\* written from its start
SaveTranscript ==
    IF full_transcript = <<>>
    THEN UNCHANGED output_file
    ELSE output_file' = WriteAll(full_transcript)

\* the value save_transcript() returns
SaveTranscriptResult == full_transcript # <<>>

mainFrame == <<cfgVars, captionVars, translated_subtitle_buffer, twVars,
               args_save_transcript, state_lock, audio_source, fed_blocks,
               audio_queue, buffered_segment, silence_elapsed, ap_pc, ap_site,
               ap_chunks, since_dequeue, forced_flushed, idle_emits, idle_adds,
               idle_expiries, ap_done_after_quit>>

\* lines 683, 690-691: the loop test passes and the key is ESC
Main_KeyEsc ==
    /\ main_pc = "loop"
    /\ is_running
    /\ is_running' = FALSE
    /\ Unlocked(MainThread, {"is_running"})
    /\ UNCHANGED <<mainFrame, is_paused, capturing, output_file, save_log,
                   main_pc, cleanup_log>>

\* lines 683, 692-694: the key is P
Main_KeyPause ==
    /\ main_pc = "loop"
    /\ is_running
    /\ is_paused' = ~is_paused
    /\ Unlocked(MainThread, {"is_running", "is_paused"})
    /\ UNCHANGED <<mainFrame, is_running, capturing, output_file, save_log,
                   main_pc, cleanup_log>>

\* lines 683, 697-703: the key is S.  "args.save_transcript or
\* save_transcript()" calls save_transcript only when the flag is not set;
\* main then takes the lock to assign processing_status, a local of main
\* (no global statement)
Main_KeySave ==
    /\ main_pc = "loop"
    /\ is_running
    /\ state_lock = "free"
    /\ IF args_save_transcript
       THEN /\ UNCHANGED output_file
            /\ save_log' = "Saved transcript"
       ELSE /\ SaveTranscript
            /\ save_log' = IF SaveTranscriptResult
                           THEN "Saved transcript"
                           ELSE "No transcript to save"
    /\ Unlocked(MainThread, {"is_running"})
    /\ UNCHANGED <<mainFrame, is_running, is_paused, capturing, main_pc,
                   cleanup_log>>

\* lines 683, 706-713: the loop ends, by its test or by KeyboardInterrupt
\* or another exception, and the finally block clears is_running
Main_Finally ==
    /\ main_pc = "loop"
    /\ is_running' = FALSE
    /\ main_pc' = "stop"
    /\ Unlocked(MainThread, {"is_running"})
    /\ UNCHANGED <<mainFrame, is_paused, capturing, output_file, save_log,
                   cleanup_log>>

\* lines 714-716: stream.stop(), stream.close(), cv2.destroyAllWindows()
Main_StopStream ==
    /\ main_pc = "stop"
    /\ capturing' = FALSE
    /\ cleanup_log' = Append(cleanup_log, "stream.stop")
    /\ main_pc' = "join"
    /\ UNCHANGED <<mainFrame, is_running, is_paused, output_file, save_log,
                   unlocked_access>>

\* line 719: processing_thread.join(timeout=1.0) returns, the thread ended
\* or not
Main_Join ==
    /\ main_pc = "join"
    /\ cleanup_log' = Append(cleanup_log, "processing_thread.join")
    /\ main_pc' = "save"
    /\ UNCHANGED <<mainFrame, is_running, is_paused, capturing, output_file,
                   save_log, unlocked_access>>

\* lines 722-726: the transcript is saved if --save_transcript was given
Main_FinalSave ==
    /\ main_pc = "save"
    /\ IF args_save_transcript
       THEN state_lock = "free" /\ SaveTranscript
       ELSE UNCHANGED output_file
    /\ main_pc' = "done"
    /\ UNCHANGED <<mainFrame, is_running, is_paused, capturing, save_log,
                   cleanup_log, unlocked_access>>

MainNext ==
    \/ Main_KeyEsc
    \/ Main_KeyPause
    \/ Main_KeySave
    \/ Main_Finally
    \/ Main_StopStream
    \/ Main_Join
    \/ Main_FinalSave

\* the command line with --save_transcript either way; texts are handed to
\* add_subtitle_text while the translation worker and main run
InitSave ==
    /\ args_translate \in BOOLEAN
    /\ args_show_original = FALSE
    /\ args_save_transcript \in BOOLEAN
    /\ audio_source = "mixed"
    /\ InitCaption /\ InitTW /\ InitAP /\ InitMain

NextSave == SubmitText \/ TWNext \/ MainNext

SpecSave == InitSave /\ [][NextSave]_vars

---------------------------------------------------------------------------
(* The segmentation worker with the input stream *)

InitSeg ==
    /\ args_translate \in BOOLEAN
    /\ args_show_original = FALSE
    /\ args_save_transcript = FALSE
    /\ audio_source \in {"speech", "mixed"}
    /\ InitCaption /\ InitTW /\ InitAP /\ InitMain

NextSeg == Tick \/ StopInput \/ APNext

SpecSeg == InitSeg /\ [][NextSeg]_vars

\* time passes, the worker thread keeps running and asr_pipe returns or
\* raises; the run is one with pauses in the speech
InitSegMixed == InitSeg /\ audio_source = "mixed"

FairSpecSeg ==
    /\ InitSegMixed
    /\ [][NextSeg]_vars
    /\ WF_vars(Tick)
    /\ WF_vars(APNext)

---------------------------------------------------------------------------
(* The caption buffers under direct calls of add_subtitle_text *)

AllTexts == SeqsUpTo(Chars, MaxTextLen)

CallAddSubtitleText ==
    /\ Len(full_transcript) < MaxTranscript
    /\ state_lock = "free"
    /\ \E new_text \in AllTexts : AddSubtitleText(new_text)
    /\ UNCHANGED <<cfgVars, mainVars, syncVars, segVars,
                   translated_subtitle_buffer, is_running, twVars>>

InitWindow == InitArgs /\ InitCaption /\ InitTW /\ InitAP /\ InitMain

NextWindow == CallAddSubtitleText

SpecWindow == InitWindow /\ [][NextWindow]_vars

---------------------------------------------------------------------------
(* get_display_text: the lines the render loop draws *)

\* args.max_lines (default 2)
SUBTITLE_MAX_LINES == 2

\* args.chars_per_line (default 52)
CHARS_PER_LINE == 2

\* lines 91-96
SUBTITLE_MAX_LINES_TOTAL ==
    IF args_show_original /\ args_translate
    THEN SUBTITLE_MAX_LINES * 2
    ELSE SUBTITLE_MAX_LINES

\* the length of the run of characters of one kind (whitespace or not) that
\* starts s
RECURSIVE RunLength(_, _)
RunLength(s, i) ==
    IF i < Len(s) /\ IsSpace(s[i + 1]) = IsSpace(s[1])
    THEN RunLength(s, i + 1)
    ELSE i

\* TextWrapper._split: the text as alternating chunks of whitespace and words
RECURSIVE SplitChunks(_)
SplitChunks(s) ==
    IF s = <<>>
    THEN <<>>
    ELSE LET n == RunLength(s, 1)
         IN  <<SubSeq(s, 1, n)>> \o SplitChunks(SubSeq(s, n + 1, Len(s)))

\* chunk.strip() == ''
IsBlankChunk(chunk) == Strip(chunk) = EmptyText

RECURSIVE JoinChunks(_)
JoinChunks(chunks) ==
    IF chunks = <<>> THEN <<>> ELSE Head(chunks) \o JoinChunks(Tail(chunks))

\* TextWrapper._wrap_chunks, the inner loop: chunks are taken while they fit
RECURSIVE TakeChunks(_, _, _, _)
TakeChunks(chunks, cur_line, cur_len, width) ==
    IF chunks # <<>> /\ cur_len + Len(Head(chunks)) <= width
    THEN TakeChunks(Tail(chunks), Append(cur_line, Head(chunks)),
                    cur_len + Len(Head(chunks)), width)
    ELSE <<cur_line, chunks>>

\* TextWrapper._wrap_chunks, the outer loop: whitespace at the start of a
\* line after the first is dropped, a word longer than the width is broken
\* to fill the line (_handle_long_word), whitespace at the end is dropped
RECURSIVE WrapChunks(_, _, _)
WrapChunks(chunks, lines, width) ==
    IF chunks = <<>>
    THEN lines
    ELSE LET start == IF IsBlankChunk(Head(chunks)) /\ lines # <<>>
                      THEN Tail(chunks) ELSE chunks
             taken == TakeChunks(start, <<>>, 0, width)
             fitted == taken[1]
             left == taken[2]
             is_long == left # <<>> /\ Len(Head(left)) > width
             space_left == width - Len(JoinChunks(fitted))
             filled == IF is_long
                       THEN Append(fitted, SubSeq(Head(left), 1, space_left))
                       ELSE fitted
             rest == IF is_long
                     THEN <<SubSeq(Head(left), space_left + 1, Len(Head(left)))>>
                              \o Tail(left)
                     ELSE left
             cur_line == IF filled # <<>> /\ IsBlankChunk(Last(filled))
                         THEN SubSeq(filled, 1, Len(filled) - 1)
                         ELSE filled
         IN  WrapChunks(rest,
                        IF cur_line # <<>>
                        THEN Append(lines, JoinChunks(cur_line))
                        ELSE lines,
                        width)

\* textwrap.wrap(text, width=width)
Wrap(text, width) == WrapChunks(SplitChunks(text), <<>>, width)

\* lines 229-252: under the lock, the wrapped buffer of the mode, cut to the
\* last lines
GetDisplayText ==
    IF args_translate
    THEN IF args_show_original
         THEN LET original_lines ==
                      LastN(Wrap(original_subtitle_buffer, CHARS_PER_LINE),
                            SUBTITLE_MAX_LINES)
                  translated_lines ==
                      LastN(Wrap(translated_subtitle_buffer, CHARS_PER_LINE),
                            SUBTITLE_MAX_LINES)
                  display_lines ==
                      original_lines \o <<EmptyText>> \o translated_lines
              IN  LastN(display_lines, SUBTITLE_MAX_LINES_TOTAL)
         ELSE LastN(Wrap(translated_subtitle_buffer, CHARS_PER_LINE),
                    SUBTITLE_MAX_LINES)
    ELSE LastN(Wrap(sentence_buffer, CHARS_PER_LINE), SUBTITLE_MAX_LINES)

\* lines 79-81, 93-94: the colours, as RGB
WHITE == <<255, 255, 255>>

ORIGINAL_COLOR == <<200, 200, 200>>

TRANSLATION_COLOR == <<255, 255, 255>>

\* lines 345-350: the colour of the line drawn in row i, rows counted from
\* the bottom line (i = 0) upwards
TextColor(lines, i) ==
    IF args_translate /\ args_show_original
    THEN IF i >= Len(lines) - SUBTITLE_MAX_LINES
         THEN TRANSLATION_COLOR
         ELSE ORIGINAL_COLOR
    ELSE WHITE

\* lines 327-352: what create_subtitle_frame draws: for each row i from the
\* bottom, the line lines[len(lines) - 1 - i] unless it is blank, in the
\* colour of its row
DrawnLines ==
    LET lines == GetDisplayText
    IN  { [row |-> i, text |-> lines[Len(lines) - i],
           fill |-> TextColor(lines, i)] :
            i \in { j \in 0..(Len(lines) - 1) :
                        Strip(lines[Len(lines) - j]) # EmptyText } }

---------------------------------------------------------------------------
(* The three threads together: the input stream, both workers, and the     *)
(* keys ESC and P of the render loop                                       *)

\* lines 528-530: paused, the worker sleeps 0.1 s and tests the flags again
AP_Paused ==
    /\ ap_pc = "loop"
    /\ is_running
    /\ is_paused
    /\ ReadsFlags
    /\ UNCHANGED <<state_lock, ap_pc, apFrame>>

\* line 527 and 609-612: is_running is false at the loop test; the thread
\* ends
AP_Exit ==
    /\ ap_pc = "loop"
    /\ ~is_running
    /\ ap_pc' = "exited"
    /\ Unlocked(SegWorker, {"is_running"})
    /\ UNCHANGED <<state_lock, apFrame>>

\* line 154: is_running is false at the loop test; the thread ends
TW_Exit ==
    /\ tw_pc = "loop"
    /\ ~is_running
    /\ tw_pc' = "exited"
    /\ Unlocked(TransWorker, {"is_running"})
    /\ UNCHANGED <<cfgVars, mainVars, segVars, captionVars,
                   translated_subtitle_buffer, is_running, processing_status,
                   translated_texts, tw_text, tw_translated, chat_calls,
                   chat_fails, tw_done_after_quit, state_lock>>

SegWorkerNext == APNext \/ AP_Paused \/ AP_Exit

\* the translation worker's steps when its texts come from the
\* segmentation worker, which hands no blank text to add_subtitle_text
\* (lines 564, 581, 601): the branch of lines 159-161 is not taken
TransWorkerNext ==
    \/ TW_Get
    \/ TW_SkipCached
    \/ TW_SetTranslating
    \/ TW_ChatCall
    \/ TW_ChatReturns
    \/ TW_ChatRaises
    \/ TW_Cache
    \/ TW_UpdateTranslation
    \/ TW_Exit

\* --translate is given, so that both workers run
InitThreads ==
    /\ args_translate = TRUE
    /\ args_show_original = FALSE
    /\ args_save_transcript = FALSE
    /\ audio_source = "mixed"
    /\ InitCaption /\ InitTW /\ InitAP /\ InitMain

NextThreads ==
    \/ Tick
    \/ StopInput
    \/ SegWorkerNext
    \/ TransWorkerNext
    \/ Main_KeyEsc
    \/ Main_KeyPause

SpecThreads == InitThreads /\ [][NextThreads]_vars

\* both worker threads keep running; asr_pipe and chat return or raise
FairSpecThreads ==
    /\ SpecThreads
    /\ WF_vars(SegWorkerNext)
    /\ WF_vars(TransWorkerNext)

---------------------------------------------------------------------------
(* Shutdown with --save_transcript: the segmentation worker, the render    *)
(* loop's keys and main's clean-up.  The worker is a daemon thread: it     *)
(* runs until the process ends, some time after main has returned, and the *)
(* join of line 719 gives up after one second.                             *)

\* save-on-exit is on, translation is off
InitShutdown ==
    /\ args_translate = FALSE
    /\ args_show_original = FALSE
    /\ args_save_transcript = TRUE
    /\ audio_source = "mixed"
    /\ InitCaption /\ InitTW /\ InitAP /\ InitMain

NextShutdown ==
    \/ Tick
    \/ StopInput
    \/ SegWorkerNext
    \/ MainNext

SpecShutdown == InitShutdown /\ [][NextShutdown]_vars

---------------------------------------------------------------------------
(* Claims about the caption buffers, checked under SpecWindow *)

\* a step that is a call of add_subtitle_text: the transcript grew by one
IsAddStep == Len(full_transcript') = Len(full_transcript) + 1

HasMarkOrSpace(s) ==
    \E i \in 1..Len(s) : s[i] \in good_break_points \/ IsSpace(s[i])

\* C1: in non-translation mode the rolling buffer is never longer than
\* SENTENCE_BUFFER_SIZE, after every call of add_subtitle_text, whatever
\* the texts (longer than the capacity, without space or mark, blank).
C1_BufferWithinCapacity ==
    ~args_translate => Len(sentence_buffer) <= SENTENCE_BUFFER_SIZE

\* a text longer than the capacity, with no space and no mark, was appended
\* to a non-empty buffer and the buffer was cut down to exactly the capacity
C1_Witness ==
    /\ ~args_translate
    /\ Len(full_transcript) = 2
    /\ Len(Last(full_transcript)) > SENTENCE_BUFFER_SIZE
    /\ ~HasMarkOrSpace(Last(full_transcript))
    /\ Len(sentence_buffer) = SENTENCE_BUFFER_SIZE

\* the text of the spec's example
HelloWorldThisIs ==
    <<"H","e","l","l","o"," ","w","o","r","l","d","."," ","T","h","i","s",
      " ","i","s">>

ThisIs == <<"T","h","i","s"," ","i","s">>

\* the 0-based position p holds the earliest terminal mark at or after from
IsEarliestMark(buf, from, p) ==
    /\ p \in from..(Len(buf) - 1)
    /\ At(buf, p) \in good_break_points
    /\ \A q \in from..(p - 1) : At(buf, q) \notin good_break_points

C4_BlankAppendIsNoOp ==
    [][ \A new_text \in AllTexts :
            (Strip(new_text) = EmptyText /\ AddSubtitleText(new_text))
                => UNCHANGED <<sentence_buffer, original_subtitle_buffer,
                               full_transcript, translation_queue>>
      ]_vars

\* C8: a text is handed to exactly one sink.  Without translation only the
\* rolling buffer takes it (queue, original and translated buffers stay);
\* with translation it becomes the original buffer and is queued, and the
\* rolling buffer stays.
C8_ExactlyOneSink ==
    [][ IsAddStep =>
          LET text == Last(full_transcript')
          IN  IF args_translate
              THEN /\ sentence_buffer' = sentence_buffer
                   /\ original_subtitle_buffer' = text
                   /\ translation_queue' = Append(translation_queue, text)
              ELSE /\ translation_queue' = translation_queue
                   /\ original_subtitle_buffer' = original_subtitle_buffer
                   /\ translated_subtitle_buffer' = translated_subtitle_buffer
                   /\ sentence_buffer' =
                          TrimBuffer(sentence_buffer \o <<" ">> \o text,
                                     SENTENCE_BUFFER_SIZE)
      ]_vars

\* translation mode: the second text is the original buffer and both texts
\* are queued, while the rolling buffer has stayed empty
C8_Witness ==
    /\ args_translate
    /\ Len(full_transcript) = 2
    /\ Last(full_transcript) # EmptyText
    /\ Len(translation_queue) = 2
    /\ original_subtitle_buffer = Last(full_transcript)
    /\ sentence_buffer = EmptyText

---------------------------------------------------------------------------
(* Claims about the translation pipeline, checked under Spec and FairSpec *)

Translations == {Strip(r) : r \in Responses}

C9_TranslatorAtMostOnce == \A t \in QueuedTexts : chat_calls[t] <= 1

\* C9 as amended: the Translator is invoked for a source text at most once
\* more than it has failed for it: once a call has succeeded the cache
\* answers every later submission, and only a failed call is repeated.
C9_AtMostOnceUnlessFailed ==
    \A t \in QueuedTexts : chat_calls[t] <= chat_fails[t] + 1

\* the same text was submitted twice and both items are done, with one
\* Translator call that succeeded
C9_Witness ==
    /\ Len(full_transcript) = 2
    /\ full_transcript[1] = full_transcript[2]
    /\ translation_queue = <<>>
    /\ unfinished_tasks = 0
    /\ chat_calls[full_transcript[1]] = 1
    /\ chat_fails[full_transcript[1]] = 0

\* C10 as claimed: whenever the Translator has returned t for a submitted
\* text, the translated buffer eventually reads t, in single and in dual
\* display, also when further texts are submitted meanwhile.
C10_EventuallyDisplayed ==
    \A t \in Translations :
        (tw_pc = "cache" /\ tw_translated = t)
            ~> (translated_subtitle_buffer = t)

\* update_translation is returning
IsUpdateStep == tw_pc = "update" /\ tw_pc' = "loop"

\* C10 as amended: in single display the translated buffer eventually reads
\* t; in dual display update_translation writes t exactly when the original
\* buffer still contains the source text, and otherwise (another text was
\* submitted meanwhile) leaves the translated buffer as it was.
C10_DisplayedUnlessSuperseded ==
    /\ \A t \in Translations :
          (~args_show_original /\ tw_pc = "cache" /\ tw_translated = t)
              ~> (translated_subtitle_buffer = t)
    /\ [][ (IsUpdateStep /\ args_show_original) =>
              IF Contains(original_subtitle_buffer, Strip(tw_text))
              THEN translated_subtitle_buffer' = tw_translated
              ELSE translated_subtitle_buffer' = translated_subtitle_buffer
        ]_vars

\* single display: the first text's translation is displayed although a
\* second, different text was submitted before the worker had finished
C10_Witness ==
    /\ args_translate /\ ~args_show_original
    /\ Len(full_transcript) = 2
    /\ full_transcript[1] # full_transcript[2]
    /\ Len(translation_queue) = 1
    /\ tw_pc = "loop"
    /\ InCache(full_transcript[1])
    /\ translated_subtitle_buffer = translated_texts[full_transcript[1]]

---------------------------------------------------------------------------
(* Claims about the segmentation worker, checked under SpecSeg and         *)
(* FairSpecSeg                                                             *)

\* C5: the timeout flush fires only when more than min_silence ms have
\* passed since the last block was taken from the capture queue (a block
\* that arrives while the idle timer runs restarts the timer).
C5_TimeoutOnlyAfterSilence ==
    [][ (AP_TimeoutFlush /\ since_dequeue # NoTime)
            => since_dequeue > min_silence ]_vars

\* blocks the worker has taken from the capture queue
DequeuedBlocks == fed_blocks - Len(audio_queue)

\* C6: once the worker has taken more than 8000 ms of uninterrupted
\* above-threshold audio from the queue, block after block as they came,
\* and is back at the head of its loop, the flush by duration has happened
\* at least once.
C6_ForcedFlushOnLongSpeech ==
    ( /\ audio_source = "speech"
      /\ DequeuedBlocks * block_size_ms > MaxSegmentMs
      /\ ap_pc = "loop" )
        => forced_flushed

\* the input has stopped, the queue is drained and the worker is at the
\* head of its loop with a buffer that is not silent
IdleWithAudio ==
    /\ ~capturing
    /\ audio_queue = <<>>
    /\ AtLoopHead
    /\ ~IsChunkSilent(buffered_segment)

\* C7: when input stops with non-silent audio buffered, the buffer is
\* eventually handed to the Transcriber by the timeout flush, and between
\* two blocks taken from the queue the timeout flush calls the Transcriber
\* at most once and adds at most one transcript entry: every later expiry
\* of the timer finds an empty buffer.
C7_IdleBufferEmittedOnce ==
    /\ [](idle_emits <= 1 /\ idle_adds <= idle_emits)
    /\ [](IdleWithAudio => idle_emits = 0)
    /\ IdleWithAudio ~> (idle_emits = 1)

\* the buffer was emitted by a timeout flush, its text was added, and a
\* later expiry of the timer was handled without another call
C7_Witness ==
    /\ ~capturing
    /\ audio_queue = <<>>
    /\ ap_pc = "loop"
    /\ buffered_segment = <<>>
    /\ idle_expiries = 2
    /\ idle_emits = 1
    /\ idle_adds = 1

---------------------------------------------------------------------------
(* Claims about failures, checked under FairSpec and SpecSeg *)

\* the step in which chat() raises
IsChatFailure == chat_fails' # chat_fails

\* C11: when the Translator call raises, the translated buffer and the cache
\* keep their values, processing_status becomes "Translation error", the
\* item is marked done and is not put back on the queue, and the worker is
\* back at its loop, where it goes on to take the next item.
C11_FailureDropsItem ==
    /\ [][ IsChatFailure =>
              /\ translated_subtitle_buffer' = translated_subtitle_buffer
              /\ translated_texts' = translated_texts
              /\ processing_status' = "Translation error"
              /\ unfinished_tasks' = unfinished_tasks - 1
              /\ translation_queue' = translation_queue
              /\ tw_pc' = "loop"
        ]_vars
    /\ (tw_pc = "loop" /\ processing_status = "Translation error"
            /\ translation_queue # <<>>) ~> (tw_pc = "got")

\* the call for the first text has raised, nothing was cached or displayed,
\* and the worker has taken the second text
C11_Witness ==
    /\ Len(full_transcript) = 2
    /\ chat_fails[full_transcript[1]] = 1
    /\ ~InCache(full_transcript[1])
    /\ translated_subtitle_buffer = EmptyText
    /\ processing_status = "Translation error"
    /\ tw_pc = "got"
    /\ tw_text = full_transcript[2]
    /\ tw_text # full_transcript[1]
    /\ translation_queue = <<>>
    /\ unfinished_tasks = 1

\* C12: when the Transcriber call raises, nothing is appended to the
\* transcript, to a caption buffer or to the translation queue, the global
\* processing_status becomes "Error in transcription", and the worker goes
\* on with the next chunk or the next iteration of its loop.
C12_AsrFailureSetsStatus ==
    [][ AP_AsrRaises =>
          /\ UNCHANGED <<full_transcript, sentence_buffer,
                         original_subtitle_buffer, translation_queue>>
          /\ processing_status' = "Error in transcription"
          /\ ap_pc' \in {"split", "loop"}
      ]_vars

---------------------------------------------------------------------------
(* Claims about the order of the texts, checked under SpecSeg *)

\* the blocks that can still reach the Transcriber: those in the capture
\* queue and those the worker holds (the chunks of the split while it goes
\* through them, the buffer otherwise)
WaitingBlocks ==
    BlockNumbers(audio_queue) \cup
        (IF ap_pc = "split" \/ ap_site = "split"
         THEN UNION {BlockNumbers(ap_chunks[k]) : k \in 1..Len(ap_chunks)}
         ELSE BlockNumbers(buffered_segment))

\* C13: texts are appended in the order their audio was captured, on all
\* three flush paths.  When the worker appends the text of a segment, every
\* block that can still reach the Transcriber was captured after every
\* block of that segment, and the only blocks that join them later are
\* newly captured ones: so a text appended later never comes from audio
\* captured earlier.
C13_TextsInCaptureOrder ==
    [][ /\ IsAddStep =>
              \A done \in BlockNumbers(CalledWith) :
                  \A waiting \in WaitingBlocks' : done < waiting
        /\ \A joined \in WaitingBlocks' \ WaitingBlocks :
              /\ joined = fed_blocks + 1
              /\ \A waiting \in WaitingBlocks : waiting < joined
      ]_vars

\* uninterrupted speech: a flush by duration has happened and two texts
\* were added, the second by a timeout flush after the input had stopped
C13_Witness ==
    /\ audio_source = "speech"
    /\ forced_flushed
    /\ ~capturing
    /\ Len(full_transcript) = 2
    /\ idle_adds = 1
    /\ ap_pc = "loop"

---------------------------------------------------------------------------
(* Claims about the displayed lines, checked under Spec *)

\* C15: in dual display get_display_text returns the last
\* SUBTITLE_MAX_LINES wrapped lines of the original buffer, one blank line,
\* and the last SUBTITLE_MAX_LINES wrapped lines of the translated buffer,
\* for all buffer contents.
C15_DualDisplayStacksBoth ==
    (args_translate /\ args_show_original) =>
        GetDisplayText =
            LastN(Wrap(original_subtitle_buffer, CHARS_PER_LINE),
                  SUBTITLE_MAX_LINES)
            \o <<EmptyText>> \o
            LastN(Wrap(translated_subtitle_buffer, CHARS_PER_LINE),
                  SUBTITLE_MAX_LINES)


\* the wrapped lines of the translated buffer that get_display_text returns
\* in dual display: the rows 0 .. Len - 1 from the bottom
TranslatedRows ==
    Len(LastN(Wrap(translated_subtitle_buffer, CHARS_PER_LINE),
              SUBTITLE_MAX_LINES))

\* C21: in dual display every drawn line has the colour of the buffer it
\* came from: a line of the translated buffer is drawn in TRANSLATION_COLOR
\* and a line of the original buffer in ORIGINAL_COLOR, however many lines
\* each buffer wraps to.
C21_LineColourMatchesBuffer ==
    (args_translate /\ args_show_original) =>
        \A d \in DrawnLines :
            d.fill = IF d.row < TranslatedRows
                     THEN TRANSLATION_COLOR
                     ELSE ORIGINAL_COLOR

---------------------------------------------------------------------------
(* A further claim about the rolling buffer, checked under SpecWindow *)

\* str.endswith
EndsWith(s, suffix) ==
    Len(suffix) <= Len(s) /\ LastN(s, Len(suffix)) = suffix

\* C22: without translation, after add_subtitle_text(t) with t not blank and
\* t.strip() no longer than the capacity, sentence_buffer ends with
\* t.strip(), whatever the buffer was before, also when t ends with the only
\* punctuation mark of the retained region.
C22_NewestTextKept ==
    [][ LET t == full_transcript'[Len(full_transcript')]
        IN  (/\ IsAddStep
             /\ ~args_translate
             /\ t # EmptyText
             /\ Len(t) <= SENTENCE_BUFFER_SIZE) =>
                EndsWith(sentence_buffer', t)
      ]_vars

---------------------------------------------------------------------------
(* A claim about the quiescent pipeline, checked under SpecSession *)

\* translation is on, the queue is empty and every item is done, the worker
\* waits at its loop, and no Translator call has failed
Quiescent ==
    /\ args_translate
    /\ translation_queue = <<>>
    /\ unfinished_tasks = 0
    /\ tw_pc = "loop"
    /\ \A t \in QueuedTexts : chat_fails[t] = 0

\* C23: in translation mode, when the pipeline is quiescent the translated
\* buffer holds the translation of the latest submitted text, the text in
\* original_subtitle_buffer, whatever was submitted before, also when that
\* text was already in the cache and another text came in between.
C23_QuiescentShowsLatest ==
    (Quiescent /\ original_subtitle_buffer # EmptyText) =>
        /\ InCache(original_subtitle_buffer)
        /\ translated_subtitle_buffer =
              translated_texts[original_subtitle_buffer]

---------------------------------------------------------------------------
(* Claims about the transcript file, checked under SpecSave *)

\* a step in which save_transcript() is called: key S without the
\* save-on-exit flag, or the clean-up with it
CallsSaveTranscript ==
    \/ Main_KeySave /\ ~args_save_transcript
    \/ Main_FinalSave /\ args_save_transcript

\* "[EN]: <translation>"
TranslationLine(text) ==
    <<"[", "E", "N", "]", ":", " ">> \o translated_texts[text]

\* the lines of the file for a transcript: per entry the text, then its
\* translation line if translation is enabled and the text is cached, then
\* a blank line
RECURSIVE FileLines(_)
FileLines(transcript) ==
    IF transcript = <<>>
    THEN <<>>
    ELSE LET text == Head(transcript)
         IN  <<text>>
             \o (IF args_translate /\ InCache(text)
                 THEN <<TranslationLine(text)>> ELSE <<>>)
             \o <<EmptyText>>
             \o FileLines(Tail(transcript))

\* a file of the given lines, each ended by a newline
RECURSIVE JoinLines(_)
JoinLines(lines) ==
    IF lines = <<>>
    THEN <<>>
    ELSE Head(lines) \o <<"\n">> \o JoinLines(Tail(lines))

\* C14: save_transcript on a non-empty transcript leaves a file that holds,
\* for each entry in order, the text on its own line, then the line
\* "[EN]: <translation>" exactly when translation is enabled and the text
\* has a cache entry, then one blank line, and nothing else (whatever the
\* file held before); without translation no translation line is written.
C14_SavedFileLayout ==
    [][ (CallsSaveTranscript /\ full_transcript # <<>>) =>
            /\ output_file' = JoinLines(FileLines(full_transcript))
            /\ ~args_translate =>
                  output_file' =
                      JoinLines([k \in 1..(2 * Len(full_transcript)) |->
                                    IF k % 2 = 1
                                    THEN full_transcript[(k + 1) \div 2]
                                    ELSE EmptyText])
      ]_vars

\* a file saved with two entries, the first with its translation line, the
\* second, not translated yet, without one
C14_Witness ==
    /\ args_translate
    /\ Len(full_transcript) = 2
    /\ full_transcript[1] = <<"b">>
    /\ full_transcript[2] = <<"a">>
    /\ InCache(<<"b">>) /\ translated_texts[<<"b">>] = <<"x">>
    /\ ~InCache(<<"a">>)
    /\ output_file = <<"b", "\n", "[", "E", "N", "]", ":", " ", "x", "\n",
                       "\n", "a", "\n", "\n">>

---------------------------------------------------------------------------
(* Claims about the lock and the running flag, checked under SpecThreads   *)
(* and FairSpecThreads                                                     *)

\* C16: no thread holds state_lock while its call of the Transcriber
\* (asr_pipe) or of the Translator (chat) is in progress.
C16_NoLockAcrossCalls ==
    /\ ap_pc = "asr" => state_lock # SegWorker
    /\ tw_pc = "chat" => state_lock # TransWorker

\* the segmentation worker has taken the lock in transcribe_chunk and
\* released it, and its Transcriber call is in progress while the
\* translation worker holds the lock before its Translator call
C16_Witness ==
    /\ ap_pc = "asr"
    /\ tw_pc = "call"
    /\ state_lock = TransWorker

\* C17: every read and every mutation of shared state by the segmentation
\* worker, the translation worker and the render loop happens while the
\* thread holds state_lock: no thread ever touches a shared variable
\* without it.
C17_AllAccessUnderLock == unlocked_access = {}

\* a call of the Transcriber, or of the Translator, begins
AsrCallStarts == ap_pc # "asr" /\ ap_pc' = "asr"

ChatCallStarts == tw_pc # "chat" /\ tw_pc' = "chat"

TranscriptionBegins == ap_pc # "transcribe_chunk" /\ ap_pc' = "transcribe_chunk"

\* C24: while is_paused is set the segmentation worker begins no new
\* Transcriber call (it only finishes the one in progress), and so appends
\* no text of a later call, wherever in its iteration the flag found it:
\* among the finished chunks or before the forced flush.
C24_PausedBeginsNoCall ==
    [][ TranscriptionBegins => ~is_paused ]_vars

---------------------------------------------------------------------------
(* Claims about key S and the clean-up, checked under SpecSave *)

\* C18: on shutdown main joins the segmentation worker before it tears
\* down audio capture: every stream.stop() in the clean-up comes after the
\* join of processing_thread.
C18_JoinBeforeStreamStop ==
    \A i \in DOMAIN cleanup_log :
        cleanup_log[i] = "stream.stop" =>
            \E j \in 1..(i - 1) : cleanup_log[j] = "processing_thread.join"

\* C20: key S with a non-empty transcript overwrites the file with the
\* transcript as it is at that moment, whatever args.save_transcript is,
\* and main logs a successful save only if the file was written.
C20_KeySaveWritesFile ==
    [][ Main_KeySave =>
          /\ full_transcript # <<>> =>
                output_file' = JoinLines(FileLines(full_transcript))
          /\ save_log' = "Saved transcript" =>
                /\ full_transcript # <<>>
                /\ output_file' = JoinLines(FileLines(full_transcript))
      ]_vars

---------------------------------------------------------------------------
(* A claim about the file saved on exit, checked under SpecShutdown *)

\* C25: with --save_transcript, once main's clean-up has made its final
\* save the file holds every text of full_transcript: the segmentation
\* worker appends no text after that save, however long the Transcriber
\* call in progress at shutdown takes.
C25_ExitFileHoldsEveryText ==
    (args_save_transcript /\ main_pc = "done" /\ full_transcript # <<>>) =>
        output_file = JoinLines(FileLines(full_transcript))

=============================================================================
